---- MODULE Spec2Model ----
(***************************************************************************)
(* The products REST service: the SQLite products table, the repository    *)
(* functions of models/products.go and the HTTP handlers and routes of     *)
(* handlers/products.go.  One HTTP request is one step: the router picks   *)
(* the handler, the handler validates, runs at most one SQL statement and  *)
(* writes its response.  `last` is the last request served together with   *)
(* its response.  SQL statements succeed: the handlers' 500 branches, taken *)
(* on a storage error, are not part of the model.  Timestamps are readings *)
(* of a clock that never goes back.  `assigned` is the set of ids that any  *)
(* committed row has ever had.                                             *)
(***************************************************************************)
EXTENDS Integers, Sequences, FiniteSets, TLC

\* Bounds of the model.
MaxID == 2
MaxTime == 2
MaxBatch == 2

\* net/http status codes used by the handlers.
StatusOK == 200
StatusCreated == 201
StatusBadRequest == 400
StatusNotFound == 404
StatusMethodNotAllowed == 405
StatusInternalServerError == 500

\* time.Time{}: the value of a time.Time field that was never assigned.
ZeroTime == 0

VARIABLES products, seq, now, last, calls, tx, wrote, assigned

vars == <<products, seq, now, last, calls, tx, wrote, assigned>>

----------------------------------------------------------------------------
\* models.Product and its zero value

Product(id, name, price, stock, created_at, updated_at) ==
  [id |-> id, name |-> name, price |-> price, stock |-> stock,
   created_at |-> created_at, updated_at |-> updated_at]

ZeroProduct == Product(0, "", 0, 0, ZeroTime, ZeroTime)

ErrProductNotFound == "product not found"

Min(S) == CHOOSE x \in S : \A y \in S : x <= y

Max(S) == CHOOSE x \in S : \A y \in S : y <= x

\* time.Now(): a reading of the clock taken when the clock last showed t.
\* Successive readings never decrease; the clock may advance between two.
TimeNow(t) == {u \in {t, t + 1} : u <= MaxTime}

----------------------------------------------------------------------------
\* The repository: models/products.go.  rows is the content of the products
\* table, a function from the ids present to the other five columns.

\* rows.Scan of the row with the given id into a Product
Scan(rows, id) ==
  Product(id, rows[id].name, rows[id].price, rows[id].stock,
          rows[id].created_at, rows[id].updated_at)

models_GetProductByID(rows, id) ==
  IF id \in DOMAIN rows
    THEN [err |-> "nil", product |-> Scan(rows, id)]
    ELSE [err |-> ErrProductNotFound, product |-> ZeroProduct]

\* OrderByID with ORDER BY id DESC
RECURSIVE OrderByID_Descending(_, _)
OrderByID_Descending(rows, ids) ==
  IF ids = {} THEN <<>>
  ELSE LET i == Max(ids)
       IN <<Scan(rows, i)>> \o OrderByID_Descending(rows, ids \ {i})

\* the rows in ascending id order
RECURSIVE OrderByID(_, _)
OrderByID(rows, ids) ==
  IF ids = {} THEN <<>>
  ELSE LET i == Min(ids) IN <<Scan(rows, i)>> \o OrderByID(rows, ids \ {i})

models_GetAllProducts(rows) == OrderByID(rows, DOMAIN rows)

\* INTEGER PRIMARY KEY without AUTOINCREMENT: one more than the largest
\* rowid in the table
NextRowID_LargestPresent(rows, s) == Max(DOMAIN rows \cup {0}) + 1

\* INTEGER PRIMARY KEY AUTOINCREMENT: one more than the largest rowid ever
\* used, which sqlite_sequence (s) remembers across deletes.
NextRowID(rows, s) == Max(DOMAIN rows \cup {s}) + 1

\* models_CreateProduct with price and stock bound to each other's column
models_CreateProduct_SwappedColumns(rows, s, product, t1, t2, t3, t4) ==
  LET id == NextRowID(rows, s) IN
  [err |-> "nil",
   rows |-> [i \in DOMAIN rows \cup {id} |->
               IF i = id
                 THEN [name |-> product.name, price |-> product.stock,
                       stock |-> product.price,
                       created_at |-> t1, updated_at |-> t2]
                 ELSE rows[i]],
   seq |-> id,
   product |-> [product EXCEPT !.id = id, !.created_at = t3, !.updated_at = t4]]

\* models_CreateProduct with the two readings bound to each other's column
models_CreateProduct_SwappedTimes(rows, s, product, t1, t2, t3, t4) ==
  LET id == NextRowID(rows, s) IN
  [err |-> "nil",
   rows |-> [i \in DOMAIN rows \cup {id} |->
               IF i = id
                 THEN [name |-> product.name, price |-> product.price,
                       stock |-> product.stock,
                       created_at |-> t2, updated_at |-> t1]
                 ELSE rows[i]],
   seq |-> id,
   product |-> [product EXCEPT !.id = id, !.created_at = t3, !.updated_at = t4]]

\* INSERT with the two clock readings t1, t2 evaluated as its arguments;
\* t3, t4 are the readings written back into the returned object.
models_CreateProduct(rows, s, product, t1, t2, t3, t4) ==
  LET id == NextRowID(rows, s) IN
  [err |-> "nil",
   rows |-> [i \in DOMAIN rows \cup {id} |->
               IF i = id
                 THEN [name |-> product.name, price |-> product.price,
                       stock |-> product.stock,
                       created_at |-> t1, updated_at |-> t2]
                 ELSE rows[i]],
   seq |-> id,
   product |-> [product EXCEPT !.id = id, !.created_at = t3, !.updated_at = t4]]

\* models_UpdateProduct with created_at refreshed along with updated_at
models_UpdateProduct_SetsCreatedAt(rows, product, t1, t2) ==
  IF product.id \in DOMAIN rows
    THEN [err |-> "nil",
          rows |-> [rows EXCEPT ![product.id] =
                      [name |-> product.name, price |-> product.price,
                       stock |-> product.stock,
                       created_at |-> t1, updated_at |-> t1]],
          product |-> [product EXCEPT !.updated_at = t2]]
    ELSE [err |-> ErrProductNotFound, rows |-> rows, product |-> ZeroProduct]

\* models_UpdateProduct without the rowsAffected check
models_UpdateProduct_IgnoresRowsAffected(rows, product, t1, t2) ==
  [err |-> "nil",
   rows |-> [i \in DOMAIN rows |->
               IF i = product.id
                 THEN [rows[i] EXCEPT !.name = product.name, !.price = product.price,
                                      !.stock = product.stock, !.updated_at = t1]
                 ELSE rows[i]],
   product |-> [product EXCEPT !.updated_at = t2]]

\* models_UpdateProduct with stock missing from the SET list
models_UpdateProduct_KeepsStock(rows, product, t1, t2) ==
  IF product.id \in DOMAIN rows
    THEN [err |-> "nil",
          rows |-> [rows EXCEPT ![product.id] =
                      [@ EXCEPT !.name = product.name, !.price = product.price,
                                !.updated_at = t1]],
          product |-> [product EXCEPT !.updated_at = t2]]
    ELSE [err |-> ErrProductNotFound, rows |-> rows, product |-> ZeroProduct]

\* models_UpdateProduct returning the row as read back after the UPDATE
models_UpdateProduct_Rereads(rows, product, t1, t2) ==
  IF product.id \in DOMAIN rows
    THEN [err |-> "nil",
          rows |-> [rows EXCEPT ![product.id] =
                      [@ EXCEPT !.name = product.name, !.price = product.price,
                                !.stock = product.stock, !.updated_at = t1]],
          product |-> Product(product.id, product.name, product.price, product.stock,
                              rows[product.id].created_at, t1)]
    ELSE [err |-> ErrProductNotFound, rows |-> rows, product |-> ZeroProduct]

\* UPDATE ... WHERE id = ?; zero rows affected is ErrProductNotFound
models_UpdateProduct(rows, product, t1, t2) ==
  IF product.id \in DOMAIN rows
    THEN [err |-> "nil",
          rows |-> [rows EXCEPT ![product.id] =
                      [@ EXCEPT !.name = product.name, !.price = product.price,
                                !.stock = product.stock, !.updated_at = t1]],
          product |-> [product EXCEPT !.updated_at = t2]]
    ELSE [err |-> ErrProductNotFound, rows |-> rows, product |-> ZeroProduct]

\* models_DeleteProduct with DELETE FROM products WHERE id <= ?
models_DeleteProduct_UpToID(rows, id) ==
  IF id \in DOMAIN rows
    THEN [err |-> "nil", rows |-> [i \in {j \in DOMAIN rows : j > id} |-> rows[i]]]
    ELSE [err |-> ErrProductNotFound, rows |-> rows]

\* models_DeleteProduct reporting success without removing the row
models_DeleteProduct_KeepsRow(rows, id) ==
  IF id \in DOMAIN rows
    THEN [err |-> "nil", rows |-> rows]
    ELSE [err |-> ErrProductNotFound, rows |-> rows]

\* DELETE ... WHERE id = ?; zero rows affected is ErrProductNotFound
models_DeleteProduct(rows, id) ==
  IF id \in DOMAIN rows
    THEN [err |-> "nil", rows |-> [i \in DOMAIN rows \ {id} |-> rows[i]]]
    ELSE [err |-> ErrProductNotFound, rows |-> rows]

----------------------------------------------------------------------------
\* Requests.  A path segment is its sequence of characters; a JSON body is
\* malformed, an object (the keys it carries and the values they decode to
\* in a models.Product, absent keys decoding to the zero value) or an array
\* of such objects.

Methods == {"GET", "POST", "PUT", "PATCH", "DELETE"}

Digits == <<"0", "1", "2", "3", "4", "5", "6", "7", "8", "9">>

IsDigit(c) == \E i \in 1..Len(Digits) : Digits[i] = c

DigitValue(c) == (CHOOSE i \in 1..Len(Digits) : Digits[i] = c) - 1

RECURSIVE ParseDigits(_, _)
ParseDigits(s, acc) ==
  IF s = <<>> THEN acc
  ELSE ParseDigits(Tail(s), acc * 10 + DigitValue(Head(s)))

\* strconv.Atoi: an optional sign followed by at least one decimal digit
Atoi(s) ==
  LET signed == s # <<>> /\ Head(s) \in {"+", "-"}
      ds == IF signed THEN Tail(s) ELSE s
  IN IF ds = <<>> \/ \E i \in 1..Len(ds) : ~IsDigit(ds[i])
       THEN [err |-> "invalid syntax", n |-> 0]
       ELSE [err |-> "nil",
             n |-> IF signed /\ Head(s) = "-"
                     THEN 0 - ParseDigits(ds, 0)
                     ELSE ParseDigits(ds, 0)]

NoBody == [kind |-> "none", fields |-> {}, obj |-> ZeroProduct, arr |-> <<>>]

MalformedBody == [NoBody EXCEPT !.kind = "malformed"]

ObjectBody(fields, obj) == [NoBody EXCEPT !.kind = "object", !.fields = fields, !.obj = obj]

ArrayBody(arr) == [NoBody EXCEPT !.kind = "array", !.arr = arr]

Draft(name, price, stock) == Product(0, name, price, stock, ZeroTime, ZeroTime)

AllFields == {"name", "price", "stock"}

\* Two valid drafts that differ in every field, and drafts failing the
\* name, price and stock checks alone and together.
ValidDrafts == {Draft("a", 1, 0), Draft("b", 2, 1)}

InvalidDrafts ==
  {Draft("", 1, 0), Draft("a", 0, 1), Draft("b", 2, -1),
   Draft("", 0, -1), Draft("a", -1, -1)}

Drafts == ValidDrafts \cup InvalidDrafts

\* {} and {"price": 2}
PatchBodies == {ObjectBody({}, ZeroProduct), ObjectBody({"price"}, Draft("", 2, 0))}

ObjectBodies == {ObjectBody(AllFields, d) : d \in Drafts}

BoundedSeq(S, n) == UNION {[1..k -> S] : k \in 0..n}

\* batches of valid drafts, and batches with one invalid draft at any position
ValidBatches == BoundedSeq(ValidDrafts, MaxBatch)

InvalidBatches ==
  {[[j \in 1..k |-> Draft("a", 1, 0)] EXCEPT ![i] = d] :
     <<k, i, d>> \in {t \in (1..MaxBatch) \X (1..MaxBatch) \X
                        {Draft("", 1, 0), Draft("b", 0, 1), Draft("a", 1, -1)} :
                      t[2] <= t[1]}}

ArrayBodies == {ArrayBody(a) : a \in ValidBatches \cup InvalidBatches}

\* first segments of paths under /api/products/: the ids the table can hold
\* and an id it never holds, and strings Atoi rejects
IDSegs == {<<Digits[i + 1]>> : i \in 1..MaxID} \cup {<<"-", "1">>}

BadSegs == {<<>>, <<"1", "a">>}

Request(method, route, seg, body) ==
  [method |-> method, route |-> route, seg |-> seg, body |-> body, query |-> ""]

\* a request for /api/products/search?name=<name>
SearchRequest(method, name) ==
  [Request(method, "/api/products/search", <<>>, NoBody) EXCEPT !.query = name]

----------------------------------------------------------------------------
\* Responses: the JSON envelopes the handlers write

NoData == [kind |-> "none", product |-> ZeroProduct, list |-> <<>>]

writeError(status, message) ==
  [status |-> status, message |-> message, data |-> NoData]

writeSuccess(status, data) ==
  [status |-> status, message |-> "success", data |-> data]

ProductData(p) == [NoData EXCEPT !.kind = "product", !.product = p]

\* a nil slice or nil interface is encoded as JSON null
ListData(l) == IF l = <<>> THEN [NoData EXCEPT !.kind = "null"]
               ELSE [NoData EXCEPT !.kind = "list", !.list = l]

HealthData == [NoData EXCEPT !.kind = "health"]

\* json.NewDecoder(r.Body).Decode(&product)
DecodeProduct(body) ==
  IF body.kind = "object" THEN [err |-> "nil", product |-> body.obj]
  ELSE [err |-> "json: cannot decode", product |-> ZeroProduct]

\* json.NewDecoder(r.Body).Decode(&products)
DecodeProducts(body) ==
  IF body.kind = "array" THEN [err |-> "nil", products |-> body.arr]
  ELSE [err |-> "json: cannot decode", products |-> <<>>]

----------------------------------------------------------------------------
\* models.ProductsBulk: every draft inserted, in order, as by CreateProduct,
\* inside one transaction; t1, t2 are the clock readings written to the rows.

RECURSIVE InsertAll(_, _, _, _, _, _)
InsertAll(rows, s, ptrs, t1, t2, created) ==
  IF ptrs = <<>> THEN [err |-> "nil", rows |-> rows, seq |-> s, products |-> created]
  ELSE LET r == models_CreateProduct(rows, s, Head(ptrs), t1, t2, t1, t2)
       IN InsertAll(r.rows, r.seq, Tail(ptrs), t1, t2, Append(created, r.product))

models_ProductsBulk(rows, s, ptrs, t1, t2) == InsertAll(rows, s, ptrs, t1, t2, <<>>)

\* the characters of the names and search terms in use
Chars(str) ==
  CASE str = "" -> <<>>
    [] str = "Ab" -> <<"A", "b">>
    [] str = "ab" -> <<"a", "b">>
    [] str = "a_" -> <<"a", "_">>
    [] OTHER -> <<str>>

\* the ASCII case folding of the LIKE operator
Fold(c) == CASE c = "A" -> "a" [] c = "B" -> "b" [] OTHER -> c

\* str LIKE pat: % stands for any run of characters, _ for any one
\* character, any other character for itself in either case
RECURSIVE LikeMatch(_, _)
LikeMatch(pat, str) ==
  IF pat = <<>> THEN str = <<>>
  ELSE IF Head(pat) = "%"
    THEN \/ LikeMatch(Tail(pat), str)
         \/ str # <<>> /\ LikeMatch(pat, Tail(str))
  ELSE /\ str # <<>>
       /\ Head(pat) = "_" \/ Fold(Head(pat)) = Fold(Head(str))
       /\ LikeMatch(Tail(pat), Tail(str))

\* SELECT ... WHERE name LIKE '%' || name || '%', the rows in id order
models_SearchProduct(rows, name) ==
  LET pat == <<"%">> \o Chars(name) \o <<"%">>
  IN OrderByID(rows, {id \in DOMAIN rows : LikeMatch(pat, Chars(rows[id].name))})

----------------------------------------------------------------------------
\* The handlers: handlers/products.go

\* CreateProductValidate with the price check as price < 0
CreateProductValidate_AcceptsZeroPrice(product) ==
  IF product.name = "" THEN "name is required"
  ELSE IF product.price < 0 THEN "price must be greater than 0"
  ELSE IF product.stock < 0 THEN "stock cannot be negative"
  ELSE ""

\* the field checks of CreateProduct; "" when the draft passes
CreateProductValidate(product) ==
  IF product.name = "" THEN "name is required"
  ELSE IF product.price <= 0 THEN "price must be greater than 0"
  ELSE IF product.stock < 0 THEN "stock cannot be negative"
  ELSE ""

\* UpdateProductValidate without the stock check
UpdateProductValidate_NoStockCheck(product) ==
  IF product.name = "" THEN "name is required"
  ELSE IF product.price <= 0 THEN "price must be greater than 0"
  ELSE ""

\* UpdateProductValidate with the price check ahead of the name check
UpdateProductValidate_PriceFirst(product) ==
  IF product.price <= 0 THEN "price must be greater than 0"
  ELSE IF product.name = "" THEN "name is required"
  ELSE IF product.stock < 0 THEN "stock cannot be negative"
  ELSE ""

\* the field checks of UpdateProduct
UpdateProductValidate(product) ==
  IF product.name = "" THEN "name is required"
  ELSE IF product.price <= 0 THEN "price must be greater than 0"
  ELSE IF product.stock < 0 THEN "stock cannot be negative"
  ELSE ""

\* ProductBulkValidate leaving the loop after its first element
ProductBulkValidate_FirstOnly(batch, i) ==
  IF i > Len(batch) THEN ""
  ELSE LET at == "products[" \o Digits[i] \o "]." IN
       IF batch[i].name = "" THEN at \o "name is required"
       ELSE IF batch[i].price <= 0 THEN at \o "price must be greater than 0"
       ELSE IF batch[i].stock < 0 THEN at \o "stock cannot be negative"
       ELSE ""

\* ProductBulkValidate with the stock check as stock <= 0
RECURSIVE ProductBulkValidate_RejectsZeroStock(_, _)
ProductBulkValidate_RejectsZeroStock(batch, i) ==
  IF i > Len(batch) THEN ""
  ELSE LET at == "products[" \o Digits[i] \o "]." IN
       IF batch[i].name = "" THEN at \o "name is required"
       ELSE IF batch[i].price <= 0 THEN at \o "price must be greater than 0"
       ELSE IF batch[i].stock <= 0 THEN at \o "stock cannot be negative"
       ELSE ProductBulkValidate_RejectsZeroStock(batch, i + 1)

\* the validation loop of ProductBulk over products[i-1], ..., products[n-1]
RECURSIVE ProductBulkValidate(_, _)
ProductBulkValidate(batch, i) ==
  IF i > Len(batch) THEN ""
  ELSE LET at == "products[" \o Digits[i] \o "]." IN
       IF batch[i].name = "" THEN at \o "name is required"
       ELSE IF batch[i].price <= 0 THEN at \o "price must be greater than 0"
       ELSE IF batch[i].stock < 0 THEN at \o "stock cannot be negative"
       ELSE ProductBulkValidate(batch, i + 1)

\* the request is answered: the table, sqlite_sequence and the clock are as
\* the handler leaves them
Serve(req, resp, rows, s, t) ==
  /\ products' = rows
  /\ seq' = s
  /\ now' = t
  /\ last' = [req |-> req, resp |-> resp]
  /\ assigned' = assigned \cup DOMAIN rows
  /\ UNCHANGED <<calls, tx, wrote>>

Reply(req, resp) == Serve(req, resp, products, seq, now)

HealthCheck(req) == Reply(req, writeSuccess(StatusOK, HealthData))

GetAllProductsResponse(rows) ==
  writeSuccess(StatusOK, ListData(models_GetAllProducts(rows)))

GetAllProducts(req) == Reply(req, GetAllProductsResponse(products))

GetProductResponse(rows, id) ==
  LET r == models_GetProductByID(rows, id) IN
  IF r.err # "nil"
    THEN writeError(StatusNotFound, "product not found")
    ELSE writeSuccess(StatusOK, ProductData(r.product))

GetProduct(req, id) == Reply(req, GetProductResponse(products, id))

CreateProduct(req) ==
  LET d == DecodeProduct(req.body)
      v == CreateProductValidate(d.product)
  IN IF d.err # "nil" THEN Reply(req, writeError(StatusBadRequest, d.err))
     ELSE IF v # "" THEN Reply(req, writeError(StatusBadRequest, v))
     ELSE /\ NextRowID(products, seq) <= MaxID
          /\ \E t1 \in TimeNow(now) : \E t2 \in TimeNow(t1) :
             \E t3 \in TimeNow(t2) : \E t4 \in TimeNow(t3) :
               LET r == models_CreateProduct(products, seq, d.product, t1, t2, t3, t4)
               IN Serve(req, writeSuccess(StatusCreated, ProductData(r.product)),
                        r.rows, r.seq, t4)

\* UpdateProduct without product.ID = id
UpdateProduct_KeepsBodyID(req, id) ==
  LET d == DecodeProduct(req.body)
      product == d.product
      v == UpdateProductValidate(product)
  IN IF d.err # "nil" THEN Reply(req, writeError(StatusBadRequest, d.err))
     ELSE IF v # "" THEN Reply(req, writeError(StatusBadRequest, v))
     ELSE \E t1 \in TimeNow(now) :
            LET miss == models_UpdateProduct(products, product, t1, t1) IN
            IF miss.err # "nil"
              THEN Serve(req, writeError(StatusNotFound, "product not found"),
                         miss.rows, seq, t1)
              ELSE \E t2 \in TimeNow(t1) :
                     LET r == models_UpdateProduct(products, product, t1, t2)
                     IN Serve(req, writeSuccess(StatusOK, ProductData(r.product)),
                              r.rows, seq, t2)

UpdateProduct(req, id) ==
  LET d == DecodeProduct(req.body)
      product == [d.product EXCEPT !.id = id]
      v == UpdateProductValidate(product)
  IN IF d.err # "nil" THEN Reply(req, writeError(StatusBadRequest, d.err))
     ELSE IF v # "" THEN Reply(req, writeError(StatusBadRequest, v))
     ELSE \E t1 \in TimeNow(now) :
            LET miss == models_UpdateProduct(products, product, t1, t1) IN
            IF miss.err # "nil"
              THEN Serve(req, writeError(StatusNotFound, "product not found"),
                         miss.rows, seq, t1)
              ELSE \E t2 \in TimeNow(t1) :
                     LET r == models_UpdateProduct(products, product, t1, t2)
                     IN Serve(req, writeSuccess(StatusOK, ProductData(r.product)),
                              r.rows, seq, t2)

DeleteProduct(req, id) ==
  LET r == models_DeleteProduct(products, id) IN
  IF r.err # "nil"
    THEN Serve(req, writeError(StatusNotFound, "product not found"), r.rows, seq, now)
    ELSE Serve(req, writeSuccess(StatusOK, [NoData EXCEPT !.kind = "null"]),
               r.rows, seq, now)

ProductBulk(req) ==
  LET d == DecodeProducts(req.body)
      v == ProductBulkValidate(d.products, 1)
  IN IF req.method # "POST"
       THEN Reply(req, writeError(StatusMethodNotAllowed, "method not allowed"))
     ELSE IF d.err # "nil" THEN Reply(req, writeError(StatusBadRequest, d.err))
     ELSE IF Len(d.products) = 0
       THEN Reply(req, writeError(StatusBadRequest, "products is empty"))
     ELSE IF v # "" THEN Reply(req, writeError(StatusBadRequest, v))
     ELSE /\ Max(DOMAIN products \cup {seq}) + Len(d.products) <= MaxID
          /\ \E t1 \in TimeNow(now) : \E t2 \in TimeNow(t1) :
               LET r == models_ProductsBulk(products, seq, d.products, t1, t2)
               IN Serve(req, writeSuccess(StatusCreated, ListData(r.products)),
                        r.rows, r.seq, t2)

\* SearchProducts answering 404 when no row matches
SearchProducts_NotFoundOnEmpty(req) ==
  IF req.method # "GET"
    THEN Reply(req, writeError(StatusMethodNotAllowed, "method not allowed"))
  ELSE IF req.query = ""
    THEN Reply(req, writeError(StatusBadRequest, "name is required"))
  ELSE IF models_SearchProduct(products, req.query) = <<>>
    THEN Reply(req, writeError(StatusNotFound, "product not found"))
  ELSE Reply(req, writeSuccess(StatusOK,
                               ListData(models_SearchProduct(products, req.query))))

\* the handler registered for /api/products/search
SearchProducts(req) ==
  IF req.method # "GET"
    THEN Reply(req, writeError(StatusMethodNotAllowed, "method not allowed"))
  ELSE IF req.query = ""
    THEN Reply(req, writeError(StatusBadRequest, "name is required"))
  ELSE Reply(req, writeSuccess(StatusOK,
                               ListData(models_SearchProduct(products, req.query))))

\* the handler registered for /api/products
ProductsRoute(req) ==
  CASE req.method = "GET" -> GetAllProducts(req)
    [] req.method = "POST" -> CreateProduct(req)
    [] OTHER -> Reply(req, writeError(StatusMethodNotAllowed, "method not allowed"))

\* HandleProduct with the method switch ahead of the parse of the id
HandleProduct_MethodFirst(req) ==
  LET a == Atoi(req.seg) IN
  IF req.method \notin {"GET", "PUT", "DELETE"}
    THEN Reply(req, writeError(StatusMethodNotAllowed, "method not allowed"))
  ELSE IF a.err # "nil" THEN Reply(req, writeError(StatusBadRequest, "invalid id"))
  ELSE CASE req.method = "GET" -> GetProduct(req, a.n)
         [] req.method = "PUT" -> UpdateProduct(req, a.n)
         [] OTHER -> DeleteProduct(req, a.n)

\* the handler registered for /api/products/
HandleProduct(req) ==
  LET a == Atoi(req.seg) IN
  IF a.err # "nil" THEN Reply(req, writeError(StatusBadRequest, "invalid id"))
  ELSE CASE req.method = "GET" -> GetProduct(req, a.n)
         [] req.method = "PUT" -> UpdateProduct(req, a.n)
         [] req.method = "DELETE" -> DeleteProduct(req, a.n)
         [] OTHER -> Reply(req, writeError(StatusMethodNotAllowed, "method not allowed"))

----------------------------------------------------------------------------
\* The service

\* the bodies clients send with a request
Bodies(method, route) ==
  CASE route = "/api/products" /\ method = "POST" -> ObjectBodies \cup {MalformedBody}
    [] route = "/api/products/" /\ method = "PUT" -> ObjectBodies \cup {MalformedBody}
    [] route = "/api/products/" /\ method = "PATCH" -> PatchBodies
    [] route = "/api/products/bulk" /\ method = "POST" ->
         ArrayBodies \cup {MalformedBody}
    [] OTHER -> {NoBody}

Requests(route, segs) ==
  {Request(t[1], route, t[2], t[3]) :
     t \in UNION {{<<m, g, b>> : g \in segs, b \in Bodies(m, route)} : m \in Methods}}

\* requests whose path segment is no number: one body for each method
BadSegRequests ==
  {Request(t[1], "/api/products/", t[2],
           CASE t[1] = "PUT" -> ObjectBody(AllFields, Draft("a", 1, 0))
             [] t[1] = "PATCH" -> ObjectBody({"price"}, Draft("", 2, 0))
             [] OTHER -> NoBody) : t \in Methods \X BadSegs}

\* InitDB on a fresh database file: createTables leaves an empty table
\* the goroutines serving overlapping requests
Clients == {"c1", "c2"}

\* a request in flight, or the last one a client was answered; raced records
\* that a PUT overlapped another PUT of the same id, or that a read was made
\* while a transaction had inserted rows
NoCall ==
  [state |-> "idle", req |-> Request("GET", "/api/health", <<>>, NoBody),
   resp |-> writeSuccess(StatusOK, HealthData), t |-> ZeroTime, raced |-> FALSE]

Pending(req, t, raced) ==
  [NoCall EXCEPT !.state = "pending", !.req = req, !.t = t, !.raced = raced]

Done(req, resp, raced) ==
  [NoCall EXCEPT !.state = "done", !.req = req, !.resp = resp, !.raced = raced]

\* no transaction is open
NoTx ==
  [open |-> FALSE, owner |-> "c1", rows |-> <<>>, seq |-> 0, left |-> <<>>,
   created |-> <<>>, t1 |-> ZeroTime, t2 |-> ZeroTime]

\* a transaction is open and has inserted a row
InsertsPending == tx.open /\ tx.created # <<>>

\* the client has no request in flight
Free(c) == calls[c].state # "pending"

\* the client's PUT for the path segment has read its clock and not yet
\* executed its UPDATE
PendingPut(c, seg) ==
  calls[c].state = "pending" /\ calls[c].req.method = "PUT" /\ calls[c].req.seg = seg

Init ==
  /\ products = <<>>
  /\ seq = 0
  /\ now = 1
  /\ last = [req |-> Request("GET", "/api/health", <<>>, NoBody),
             resp |-> writeSuccess(StatusOK, HealthData)]
  /\ calls = [c \in Clients |-> NoCall]
  /\ tx = NoTx
  /\ wrote = "none"
  /\ assigned = {}

\* time passes between requests
Tick ==
  /\ now < MaxTime
  /\ now' = now + 1
  /\ UNCHANGED <<products, seq, last, calls, tx, wrote, assigned>>

ServeHealth == \E req \in Requests("/api/health", {<<>>}) : HealthCheck(req)

ServeProducts == \E req \in Requests("/api/products", {<<>>}) : ProductsRoute(req)

ServeProduct ==
  \E req \in Requests("/api/products/", IDSegs) \cup BadSegRequests : HandleProduct(req)

ServeBulk == \E req \in Requests("/api/products/bulk", {<<>>}) : ProductBulk(req)

Next == Tick \/ ServeHealth \/ ServeProducts \/ ServeProduct \/ ServeBulk

Spec == Init /\ [][Next]_vars

\* Overlapping requests: net/http serves every request in a goroutine of its
\* own, and the goroutines meet in the database. A statement is one step; a
\* PUT is the handler's part (decode, checks, the clock reading passed to
\* Exec) and then its UPDATE; a bulk create is BEGIN, one step for each
\* INSERT, and COMMIT or ROLLBACK. The writes of the open transaction go to
\* tx.rows and reach products, which every other connection reads, at COMMIT.
\* A writer waits while another connection holds the write lock.
BulkBegin(c, req) ==
  LET d == DecodeProducts(req.body) IN
  /\ Free(c)
  /\ ~tx.open
  /\ d.err = "nil" /\ Len(d.products) > 0 /\ ProductBulkValidate(d.products, 1) = ""
  /\ Max(DOMAIN products \cup {seq}) + Len(d.products) <= MaxID
  /\ \E t1 \in TimeNow(now) : \E t2 \in TimeNow(t1) :
       /\ tx' = [open |-> TRUE, owner |-> c, rows |-> products, seq |-> seq,
                 left |-> d.products, created |-> <<>>, t1 |-> t1, t2 |-> t2]
       /\ now' = t2
  /\ calls' = [calls EXCEPT ![c] = Pending(req, ZeroTime, FALSE)]
  /\ UNCHANGED <<products, seq, last, wrote, assigned>>

\* BulkInsert with every INSERT a statement of its own, outside a transaction
BulkInsert_Autocommit ==
  /\ tx.open /\ tx.left # <<>>
  /\ LET r == models_CreateProduct(tx.rows, tx.seq, Head(tx.left),
                                   tx.t1, tx.t2, tx.t1, tx.t2)
     IN /\ tx' = [tx EXCEPT !.rows = r.rows, !.seq = r.seq, !.left = Tail(tx.left),
                            !.created = Append(tx.created, r.product)]
        /\ products' = r.rows
        /\ seq' = r.seq
  /\ assigned' = assigned \cup DOMAIN products'
  /\ UNCHANGED <<now, last, calls, wrote>>

\* the next INSERT of the open transaction
BulkInsert ==
  /\ tx.open /\ tx.left # <<>>
  /\ LET r == models_CreateProduct(tx.rows, tx.seq, Head(tx.left),
                                   tx.t1, tx.t2, tx.t1, tx.t2)
     IN tx' = [tx EXCEPT !.rows = r.rows, !.seq = r.seq, !.left = Tail(tx.left),
                         !.created = Append(tx.created, r.product)]
  /\ UNCHANGED <<products, seq, now, last, calls, wrote, assigned>>

\* the next INSERT fails: ROLLBACK, and the handler answers 500
BulkFail ==
  /\ tx.open /\ tx.left # <<>>
  /\ tx' = NoTx
  /\ calls' = [calls EXCEPT ![tx.owner] =
                 Done(calls[tx.owner].req,
                      writeError(StatusInternalServerError, "insert failed"), FALSE)]
  /\ UNCHANGED <<products, seq, now, last, wrote, assigned>>

\* COMMIT after the last INSERT, and the handler answers 201
BulkCommit ==
  /\ tx.open /\ tx.left = <<>>
  /\ products' = tx.rows
  /\ seq' = tx.seq
  /\ tx' = NoTx
  /\ calls' = [calls EXCEPT ![tx.owner] =
                 Done(calls[tx.owner].req,
                      writeSuccess(StatusCreated, ListData(tx.created)), FALSE)]
  /\ assigned' = assigned \cup DOMAIN tx.rows
  /\ UNCHANGED <<now, last, wrote>>

\* GET /api/products on a connection of its own
ConcGetAll(c) ==
  /\ Free(c)
  /\ calls' = [calls EXCEPT ![c] =
                 Done(Request("GET", "/api/products", <<>>, NoBody),
                      GetAllProductsResponse(products), InsertsPending)]
  /\ UNCHANGED <<products, seq, now, last, tx, wrote, assigned>>

\* GET /api/products/{id} on a connection of its own
ConcGetProduct(c, req) ==
  /\ Free(c)
  /\ calls' = [calls EXCEPT ![c] =
                 Done(req, GetProductResponse(products, Atoi(req.seg).n),
                      InsertsPending)]
  /\ UNCHANGED <<products, seq, now, last, tx, wrote, assigned>>

\* the handler's part of a PUT up to the clock reading passed to Exec
UpdateBegin(c, req) ==
  LET d == DecodeProduct(req.body)
      product == [d.product EXCEPT !.id = Atoi(req.seg).n]
      v == UpdateProductValidate(product)
      met == \E o \in Clients \ {c} : PendingPut(o, req.seg)
  IN /\ Free(c)
     /\ IF d.err # "nil"
          THEN /\ calls' = [calls EXCEPT ![c] =
                              Done(req, writeError(StatusBadRequest, d.err), FALSE)]
               /\ now' = now
        ELSE IF v # ""
          THEN /\ calls' = [calls EXCEPT ![c] =
                              Done(req, writeError(StatusBadRequest, v), FALSE)]
               /\ now' = now
        ELSE \E t1 \in TimeNow(now) :
               /\ calls' = [o \in Clients |->
                              IF o = c THEN Pending(req, t1, met)
                              ELSE IF PendingPut(o, req.seg)
                                THEN [calls[o] EXCEPT !.raced = TRUE]
                              ELSE calls[o]]
               /\ now' = t1
     /\ UNCHANGED <<products, seq, last, tx, wrote, assigned>>

\* the UPDATE statement of a PUT and the handler's answer
UpdateExec(c) ==
  LET req == calls[c].req
      product == [DecodeProduct(req.body).product EXCEPT !.id = Atoi(req.seg).n]
  IN /\ calls[c].state = "pending" /\ req.method = "PUT"
     /\ ~tx.open
     /\ \E t2 \in TimeNow(now) :
          LET r == models_UpdateProduct(products, product, calls[c].t, t2) IN
          /\ products' = r.rows
          /\ IF r.err # "nil"
               THEN /\ calls' = [calls EXCEPT ![c] =
                                   Done(req, writeError(StatusNotFound, "product not found"),
                                        calls[c].raced)]
                    /\ wrote' = wrote
                    /\ now' = now
               ELSE /\ calls' = [calls EXCEPT ![c] =
                                   Done(req, writeSuccess(StatusOK, ProductData(r.product)),
                                        calls[c].raced)]
                    /\ wrote' = c
                    /\ now' = t2
     /\ UNCHANGED <<seq, last, tx, assigned>>

ConcPutRequests ==
  {Request("PUT", "/api/products/", <<"1">>, ObjectBody(AllFields, d)) :
     d \in ValidDrafts \cup {Draft("", 1, 0)}}

ConcGetRequests ==
  {Request("GET", "/api/products/", seg, NoBody) : seg \in {<<"1">>, <<"2">>}}

\* batches of one to MaxBatch drafts, of two kinds in turn
ConcBatches ==
  {[i \in 1..k |-> IF i % 2 = 1 THEN Draft("a", 1, 0) ELSE Draft("b", 2, 1)] :
     k \in 1..MaxBatch}

ConcBulkRequests ==
  {Request("POST", "/api/products/bulk", <<>>, ArrayBody(b)) : b \in ConcBatches}

NextConc ==
  \/ \E c \in Clients : \E req \in ConcBulkRequests : BulkBegin(c, req)
  \/ BulkInsert
  \/ BulkFail
  \/ BulkCommit
  \/ \E c \in Clients : ConcGetAll(c)
  \/ \E c \in Clients : \E req \in ConcGetRequests : ConcGetProduct(c, req)
  \/ \E c \in Clients : \E req \in ConcPutRequests : UpdateBegin(c, req)
  \/ \E c \in Clients : UpdateExec(c)

SpecConc == Init /\ [][NextConc]_vars

\* The search service: products with longer names are created and searched
SearchNames == {"Ab", "b", "a_"}

SearchTerms == {"", "b", "B", "ab", "z", "_", "%"}

SearchRequests ==
  {SearchRequest("GET", x) : x \in SearchTerms} \cup {SearchRequest("POST", "b")}

CreateNamed ==
  \E name \in SearchNames :
    CreateProduct(Request("POST", "/api/products", <<>>,
                          ObjectBody(AllFields, Draft(name, 1, 0))))

ServeSearch == \E req \in SearchRequests : SearchProducts(req)

NextSearch == CreateNamed \/ ServeSearch

SpecSearch == Init /\ [][NextSearch]_vars

\* The service with bodies that carry an id and a created_at of their own
BodyFields == AllFields \cup {"id", "created_at"}

BodyProducts ==
  {Product(q, d.name, d.price, d.stock, c, ZeroTime) :
     q \in 0..MaxID, d \in ValidDrafts, c \in {ZeroTime, MaxTime}}

ServeBodyCreate ==
  \E p \in {b \in BodyProducts : b.created_at = ZeroTime} :
    ProductsRoute(Request("POST", "/api/products", <<>>, ObjectBody(BodyFields, p)))

ServeBodyUpdate ==
  \E seg \in {<<Digits[i + 1]>> : i \in 1..MaxID} : \E p \in BodyProducts :
    HandleProduct(Request("PUT", "/api/products/", seg, ObjectBody(BodyFields, p)))

NextBody == ServeBodyCreate \/ ServeBodyUpdate

SpecBody == Init /\ [][NextBody]_vars

\* The service with the search route served next to the others
NextFrame == Next \/ ServeSearch

SpecFrame == Init /\ [][NextFrame]_vars

----------------------------------------------------------------------------
\* Properties

\* a draft that passes the three field checks
ValidDraft(d) == d.name # "" /\ d.price > 0 /\ d.stock >= 0

\* the step served a request (a step of Tick changes the clock alone)
Served == <<products, seq, last>>' # <<products, seq, last>>

IsCreate(l) ==
  l.req.route = "/api/products" /\ l.req.method = "POST" /\ l.req.body.kind = "object"

\* a request of the given method for /api/products/{id} with a numeric id
IsItem(l, method) ==
  l.req.route = "/api/products/" /\ l.req.method = method /\ Atoi(l.req.seg).err = "nil"

ItemID(l) == Atoi(l.req.seg).n

IsBulk(l) ==
  l.req.route = "/api/products/bulk" /\ l.req.method = "POST" /\ l.req.body.kind = "array"

\* C1: create with a valid draft answers 201 with an id that was not in the
\* table, and getByID on that id, before any other write, answers 200 with
\* the draft's name, price and stock.
C1_CreateThenGetByID ==
  [][(Served /\ IsCreate(last') /\ ValidDraft(last'.req.body.obj)) =>
       /\ last'.resp.status = StatusCreated
       /\ last'.resp.data.kind = "product"
       /\ last'.resp.data.product.id \notin DOMAIN products
       /\ LET g == GetProductResponse(products', last'.resp.data.product.id)
              d == last'.req.body.obj
          IN /\ g.status = StatusOK
             /\ g.data.product.id = last'.resp.data.product.id
             /\ g.data.product.name = d.name
             /\ g.data.product.price = d.price
             /\ g.data.product.stock = d.stock]_vars

C1_Witness ==
  /\ IsCreate(last) /\ ValidDraft(last.req.body.obj)
  /\ last.resp.status = StatusCreated
  /\ Cardinality(DOMAIN products) = 2

\* C2: the record read back by getByID after a create, before any update of
\* that id, has created_at equal to updated_at.
C2_CreatedAtEqualsUpdatedAt ==
  (IsCreate(last) /\ last.resp.status = StatusCreated) =>
    LET g == GetProductResponse(products, last.resp.data.product.id)
    IN g.status = StatusOK
       /\ g.data.product.created_at = g.data.product.updated_at

\* C3: bulkCreate with an invalid draft at any position answers 400 and
\* leaves the table as it was.
C3_BulkInvalidInsertsNothing ==
  [][(Served /\ IsBulk(last')
        /\ \E i \in 1..Len(last'.req.body.arr) : ~ValidDraft(last'.req.body.arr[i])) =>
       /\ last'.resp.status = StatusBadRequest
       /\ products' = products
       /\ seq' = seq]_vars

C3_Witness ==
  /\ IsBulk(last)
  /\ Len(last.req.body.arr) = 2
  /\ ValidDraft(last.req.body.arr[1]) /\ ~ValidDraft(last.req.body.arr[2])
  /\ last.resp.status = StatusBadRequest
  /\ DOMAIN products # {}

\* C4: every persisted row has price > 0 and stock >= 0.
C4_RowsValid ==
  \A id \in DOMAIN products : products[id].price > 0 /\ products[id].stock >= 0

C4_Witness ==
  /\ Cardinality(DOMAIN products) = 2
  /\ IsItem(last, "PUT") /\ ItemID(last) \in DOMAIN products
  /\ last.req.body.kind = "object" /\ ~ValidDraft(last.req.body.obj)

C6_AbsentIDNotFound ==
  [][(/\ Served
      /\ \/ IsItem(last', "GET")
         \/ IsItem(last', "DELETE")
         \/ /\ IsItem(last', "PUT")
            /\ last'.req.body.kind = "object" /\ ValidDraft(last'.req.body.obj)
      /\ ItemID(last') \notin DOMAIN products) =>
       /\ last'.resp.status = StatusNotFound
       /\ products' = products
       /\ seq' = seq]_vars

C6_Witness ==
  /\ IsItem(last, "PUT") /\ last.resp.status = StatusNotFound
  /\ ItemID(last) \notin DOMAIN products
  /\ DOMAIN products # {}

\* C7: after a successful delete the row is gone: getByID on the id answers
\* 404 and getAll does not list it.
C7_DeleteThenNotFound ==
  (IsItem(last, "DELETE") /\ last.resp.status = StatusOK) =>
    /\ GetProductResponse(products, ItemID(last)).status = StatusNotFound
    /\ LET l == GetAllProductsResponse(products).data.list
       IN \A i \in 1..Len(l) : l[i].id # ItemID(last)

C7_Witness ==
  /\ IsItem(last, "DELETE") /\ last.resp.status = StatusOK
  /\ ItemID(last) = 1
  /\ DOMAIN products = {2}

\* C8: create and full update reject an empty name, a price <= 0 and a
\* stock < 0 with 400 and leave the table unchanged.
C8_InvalidBodyRejected ==
  [][(/\ Served
      /\ IsCreate(last') \/ IsItem(last', "PUT")
      /\ last'.req.body.kind = "object"
      /\ \/ last'.req.body.obj.name = ""
         \/ last'.req.body.obj.price <= 0
         \/ last'.req.body.obj.stock < 0) =>
       /\ last'.resp.status = StatusBadRequest
       /\ products' = products
       /\ seq' = seq]_vars

C8_Witness ==
  /\ IsItem(last, "PUT") /\ ItemID(last) \in DOMAIN products
  /\ last.req.body.kind = "object"
  /\ last.req.body.obj.name # "" /\ last.req.body.obj.price > 0
  /\ last.req.body.obj.stock < 0
  /\ last.resp.status = StatusBadRequest

\* C9: PATCH of an existing id with a body holding only a price > 0 answers
\* 200, sets the row's price and leaves its name and stock unchanged.
C9_PatchPriceOnly ==
  [][(/\ Served
      /\ IsItem(last', "PATCH") /\ ItemID(last') \in DOMAIN products
      /\ last'.req.body.kind = "object" /\ last'.req.body.fields = {"price"}
      /\ last'.req.body.obj.price > 0) =>
       LET id == ItemID(last') IN
       /\ last'.resp.status = StatusOK
       /\ id \in DOMAIN products'
       /\ products'[id].price = last'.req.body.obj.price
       /\ products'[id].name = products[id].name
       /\ products'[id].stock = products[id].stock]_vars

\* C10: PATCH of an existing id with the body {} answers 400 and leaves the
\* table unchanged.
C10_PatchEmptyBody ==
  [][(/\ Served
      /\ IsItem(last', "PATCH") /\ ItemID(last') \in DOMAIN products
      /\ last'.req.body.kind = "object" /\ last'.req.body.fields = {}) =>
       /\ last'.resp.status = StatusBadRequest
       /\ products' = products]_vars

\* C11: PATCH with a non-empty valid patch on an absent id answers 404.
C11_PatchAbsentID ==
  [][(/\ Served
      /\ IsItem(last', "PATCH") /\ ItemID(last') \notin DOMAIN products
      /\ last'.req.body.kind = "object" /\ last'.req.body.fields = {"price"}
      /\ last'.req.body.obj.price > 0) =>
       last'.resp.status = StatusNotFound]_vars

\* C13: bulkCreate with a non-empty batch of valid drafts answers 201 with
\* one product per draft, each with the draft's name and a new id, the ids
\* pairwise distinct, and every draft persisted.
C13_BulkCreatesAll ==
  [][(/\ Served
      /\ IsBulk(last') /\ Len(last'.req.body.arr) > 0
      /\ \A i \in 1..Len(last'.req.body.arr) : ValidDraft(last'.req.body.arr[i])) =>
       LET arr == last'.req.body.arr
           out == last'.resp.data.list
       IN /\ last'.resp.status = StatusCreated
          /\ Len(out) = Len(arr)
          /\ \A i \in 1..Len(arr) :
               /\ out[i].name = arr[i].name
               /\ out[i].id \notin DOMAIN products
               /\ out[i].id \in DOMAIN products'
               /\ products'[out[i].id].name = arr[i].name
               /\ products'[out[i].id].price = arr[i].price
               /\ products'[out[i].id].stock = arr[i].stock
          /\ \A i, j \in 1..Len(arr) : i # j => out[i].id # out[j].id
          /\ \A id \in DOMAIN products :
               id \in DOMAIN products' /\ products'[id] = products[id]]_vars

C13_Witness ==
  /\ IsBulk(last) /\ Len(last.req.body.arr) = 2
  /\ last.req.body.arr[1] # last.req.body.arr[2]
  /\ last.resp.status = StatusCreated
  /\ Cardinality(DOMAIN products) = 2

\* C14: a path under /api/products/ whose first segment is no decimal
\* integer is answered 400 for every method, and the table is unchanged.
C14_BadIDBadRequest ==
  [][(/\ Served
      /\ last'.req.route = "/api/products/"
      /\ Atoi(last'.req.seg).err # "nil") =>
       /\ last'.resp.status = StatusBadRequest
       /\ products' = products
       /\ seq' = seq]_vars

C14_Witness ==
  /\ last.req.route = "/api/products/" /\ last.req.seg = <<"1", "a">>
  /\ last.req.method = "PATCH"
  /\ last.resp.status = StatusBadRequest
  /\ DOMAIN products # {}

\* the methods the interface table lists for each path
Supported(route) ==
  CASE route = "/api/health" -> {"GET"}
    [] route = "/api/products" -> {"GET", "POST"}
    [] route = "/api/products/" -> {"GET", "PUT", "PATCH", "DELETE"}
    [] route = "/api/products/search" -> {"GET"}
    [] route = "/api/products/bulk" -> {"POST"}

\* C15: on every matched path a request whose method is not supported for
\* the path answers 405 and leaves the table unchanged.
C15_MethodNotAllowed ==
  [][(/\ Served
      /\ last'.req.method \notin Supported(last'.req.route)
      /\ last'.req.route = "/api/products/" => Atoi(last'.req.seg).err = "nil") =>
       /\ last'.resp.status = StatusMethodNotAllowed
       /\ products' = products
       /\ seq' = seq]_vars

C17_GetAllAscending ==
  (last.req.route = "/api/products" /\ last.req.method = "GET") =>
    LET l == last.resp.data.list IN
    /\ last.resp.status = StatusOK
    /\ Len(l) = Cardinality(DOMAIN products)
    /\ \A id \in DOMAIN products : \E i \in 1..Len(l) : l[i] = Scan(products, id)
    /\ \A i, j \in 1..Len(l) : i < j => l[i].id < l[j].id
    /\ DOMAIN products = {} => l = <<>>

C17_Witness ==
  /\ last.req.route = "/api/products" /\ last.req.method = "GET"
  /\ Len(last.resp.data.list) = 2

C17_WitnessEmpty ==
  /\ last.req.route = "/api/products" /\ last.req.method = "GET"
  /\ seq > 0 /\ DOMAIN products = {}

\* C18: in create and full update the checks run in the order name, price,
\* stock and the first failing check gives the 400 message.
C18_ValidationOrder ==
  ((IsCreate(last) \/ IsItem(last, "PUT")) /\ last.req.body.kind = "object") =>
    LET d == last.req.body.obj
        m == last.resp.message
    IN /\ d.name = "" => last.resp.status = StatusBadRequest /\ m = "name is required"
       /\ (d.name # "" /\ d.price <= 0) =>
            last.resp.status = StatusBadRequest /\ m = "price must be greater than 0"
       /\ (d.name # "" /\ d.price > 0 /\ d.stock < 0) =>
            last.resp.status = StatusBadRequest /\ m = "stock cannot be negative"
       /\ m = "stock cannot be negative" => d.name # "" /\ d.price > 0

C18_Witness ==
  /\ IsItem(last, "PUT") /\ ItemID(last) \in DOMAIN products
  /\ last.req.body.kind = "object"
  /\ last.req.body.obj.name # "" /\ last.req.body.obj.price <= 0
  /\ last.req.body.obj.stock < 0
  /\ last.resp.message = "price must be greater than 0"

\* x occurs in str as a run of consecutive characters
Contains(x, str) ==
  \E i \in 1..(Len(str) - Len(x) + 1) : SubSeq(str, i, i + Len(x) - 1) = x

\* x occurs in str when the case of ASCII letters is ignored
ContainsFolded(x, str) ==
  \E i \in 1..(Len(str) - Len(x) + 1) :
    \A k \in 1..Len(x) : Fold(str[i + k - 1]) = Fold(x[k])

IsSearch(l) ==
  l.req.route = "/api/products/search" /\ l.req.method = "GET" /\ l.req.query # ""

\* the ids of the rows a search answered with
Found(l) == {l.resp.data.list[i].id : i \in 1..Len(l.resp.data.list)}

C12_WitnessEmpty ==
  /\ IsSearch(last) /\ last.req.query = "z"
  /\ DOMAIN products # {}
  /\ last.resp.status = StatusOK /\ last.resp.data.list = <<>>

\* the ids of the rows in an answer
SeenIDs(resp) ==
  CASE resp.data.kind = "list" ->
         {resp.data.list[i].id : i \in 1..Len(resp.data.list)}
    [] resp.data.kind = "product" -> {resp.data.product.id}
    [] OTHER -> {}

\* the ids of the rows the open transaction has inserted
BatchIDs(t) == {t.created[i].id : i \in 1..Len(t.created)}

IsRead(call) == call.state = "done" /\ call.req.method = "GET"

C19_WitnessRollback ==
  /\ ~tx.open /\ DOMAIN products = {} /\ seq = 0
  /\ \E c, r \in Clients :
       /\ calls[c].state = "done" /\ calls[c].req.route = "/api/products/bulk"
       /\ calls[c].resp.status = StatusInternalServerError
       /\ IsRead(calls[r]) /\ calls[r].raced

\* a finished PUT with a valid body that overlapped another PUT of its id
RacedPut(c) ==
  /\ calls[c].state = "done" /\ calls[c].req.method = "PUT" /\ calls[c].raced
  /\ calls[c].req.body.kind = "object" /\ ValidDraft(calls[c].req.body.obj)

\* C20: two overlapping valid PUTs of one existing id both answer 200, and
\* the row's name, price and stock are those of the request whose UPDATE
\* executed last.
C20_LastWriteWins ==
  \A c1, c2 \in Clients :
    (/\ c1 # c2 /\ RacedPut(c1) /\ RacedPut(c2)
     /\ calls[c1].req.seg = calls[c2].req.seg
     /\ Atoi(calls[c1].req.seg).n \in DOMAIN products) =>
      /\ calls[c1].resp.status = StatusOK
      /\ calls[c2].resp.status = StatusOK
      /\ wrote \in {c1, c2}
      /\ LET row == products[Atoi(calls[c1].req.seg).n]
             d == calls[wrote].req.body.obj
         IN row.name = d.name /\ row.price = d.price /\ row.stock = d.stock

C20_Witness ==
  /\ RacedPut("c1") /\ RacedPut("c2")
  /\ calls["c1"].req.body.obj # calls["c2"].req.body.obj
  /\ calls["c1"].resp.status = StatusOK /\ calls["c2"].resp.status = StatusOK
  /\ wrote = "c1"
  /\ products[1].name = calls["c1"].req.body.obj.name
  /\ products[1].stock # calls["c2"].req.body.obj.stock

\* C22: an id given to a new row was never the id of an earlier row, deleted
\* rows included, and a getByID on the id of a deleted row answers 404.
C22_IDsNeverReused ==
  [][/\ (DOMAIN products' \ DOMAIN products) \cap assigned = {}
     /\ (/\ Served /\ IsItem(last', "GET")
         /\ ItemID(last') \in assigned \ DOMAIN products) =>
          last'.resp.status = StatusNotFound]_vars

\* the row with id 1 was deleted, a later create was given id 2, and a
\* getByID on 1 was answered 404
C22_Witness ==
  /\ 1 \in assigned /\ DOMAIN products = {2}
  /\ IsItem(last, "GET") /\ ItemID(last) = 1
  /\ last.resp.status = StatusNotFound

\* the rows of the table other than row id are as they were
OthersUnchanged(id) ==
  \A j \in DOMAIN products \ {id} : j \in DOMAIN products' /\ products'[j] = products[j]

\* C24: a successful create adds one row and changes no other, a successful
\* update or delete of id i changes no row but i, the delete removing
\* exactly row i, and health, getAll, getByID and search leave the table as
\* it was.
C24_SingleRowFrame ==
  [][Served =>
       /\ (IsCreate(last') /\ last'.resp.status = StatusCreated) =>
            /\ \E id \in DOMAIN products' \ DOMAIN products :
                 DOMAIN products' = DOMAIN products \cup {id}
            /\ OthersUnchanged(0)
       /\ (IsItem(last', "PUT") /\ last'.resp.status = StatusOK) =>
            /\ DOMAIN products' = DOMAIN products
            /\ OthersUnchanged(ItemID(last'))
       /\ (IsItem(last', "DELETE") /\ last'.resp.status = StatusOK) =>
            /\ ItemID(last') \in DOMAIN products
            /\ DOMAIN products' = DOMAIN products \ {ItemID(last')}
            /\ OthersUnchanged(ItemID(last'))
       /\ (\/ last'.req.route = "/api/health"
           \/ last'.req.route = "/api/products" /\ last'.req.method = "GET"
           \/ IsItem(last', "GET")
           \/ last'.req.route = "/api/products/search") =>
            products' = products /\ seq' = seq]_vars

\* row 2 was deleted while row 1 stayed
C24_Witness ==
  /\ IsItem(last, "DELETE") /\ ItemID(last) = 2
  /\ last.resp.status = StatusOK
  /\ DOMAIN products = {1} /\ 2 \in assigned

\* a search that found a row of a table of two
C24_WitnessSearch ==
  /\ IsSearch(last) /\ Cardinality(Found(last)) = 1
  /\ Cardinality(DOMAIN products) = 2

\* C21: the product a successful update answers with has the created_at of
\* the request body, the zero value when the body has none, while the stored
\* row keeps its own; its id, name, price and stock are those of the stored
\* row.
C21_UpdateReturnsCallerCreatedAt ==
  [][(Served /\ IsItem(last', "PUT") /\ last'.resp.status = StatusOK) =>
       LET p == last'.resp.data.product
           i == ItemID(last')
       IN /\ p.created_at = last'.req.body.obj.created_at
          /\ products'[i].created_at = products[i].created_at
          /\ p.id = i
          /\ p.name = products'[i].name
          /\ p.price = products'[i].price
          /\ p.stock = products'[i].stock]_vars

\* the body's created_at came back and is not the stored one
C21_Witness ==
  /\ IsItem(last, "PUT") /\ last.resp.status = StatusOK
  /\ last.req.body.obj.created_at = MaxTime
  /\ last.resp.data.product.created_at = MaxTime
  /\ products[ItemID(last)].created_at # MaxTime

\* a body without created_at: the zero value came back
C21_WitnessOmitted ==
  /\ IsItem(last, "PUT") /\ last.resp.status = StatusOK
  /\ last.req.body.obj.created_at = ZeroTime
  /\ last.resp.data.product.created_at = ZeroTime
  /\ products[ItemID(last)].created_at # ZeroTime

\* C23: a PUT for path id p with a valid body carrying another id q is
\* decided by p: 404 and no change when p is absent, else 200 with row p
\* written and every other row, q included, unchanged; a create with an id
\* in its body stores the row under a new id and changes no other row.
C23_PathIDDecides ==
  [][Served =>
       /\ (/\ IsItem(last', "PUT") /\ last'.req.body.kind = "object"
           /\ ValidDraft(last'.req.body.obj)
           /\ last'.req.body.obj.id # ItemID(last')) =>
            LET p == ItemID(last')
                b == last'.req.body.obj
            IN IF p \notin DOMAIN products
                 THEN last'.resp.status = StatusNotFound /\ products' = products
                 ELSE /\ last'.resp.status = StatusOK
                      /\ DOMAIN products' = DOMAIN products
                      /\ products'[p].name = b.name
                      /\ products'[p].price = b.price
                      /\ products'[p].stock = b.stock
                      /\ OthersUnchanged(p)
       /\ (/\ IsCreate(last') /\ ValidDraft(last'.req.body.obj)
           /\ last'.req.body.obj.id # 0) =>
            LET id == last'.resp.data.product.id
                b == last'.req.body.obj
            IN /\ last'.resp.status = StatusCreated
               /\ id \notin assigned
               /\ DOMAIN products' = DOMAIN products \cup {id}
               /\ products'[id].name = b.name
               /\ products'[id].price = b.price
               /\ products'[id].stock = b.stock
               /\ OthersUnchanged(id)]_vars

\* PUT /api/products/2 with id 1 in the body while only row 1 exists
C23_Witness ==
  /\ IsItem(last, "PUT") /\ ItemID(last) = 2 /\ last.req.body.obj.id = 1
  /\ ValidDraft(last.req.body.obj)
  /\ DOMAIN products = {1}
  /\ last.resp.status = StatusNotFound

\* PUT /api/products/1 with id 2 in the body while rows 1 and 2 exist
C23_WitnessOther ==
  /\ IsItem(last, "PUT") /\ ItemID(last) = 1 /\ last.req.body.obj.id = 2
  /\ DOMAIN products = {1, 2}
  /\ last.resp.status = StatusOK
  /\ products[2].name # last.req.body.obj.name

\* a create with id 1 in the body while row 1 exists
C23_WitnessCreate ==
  /\ IsCreate(last) /\ last.req.body.obj.id = 1
  /\ last.resp.status = StatusCreated /\ last.resp.data.product.id = 2
  /\ DOMAIN products = {1, 2}

====
